---- MODULE Spec2Model ----
(***************************************************************************)
(* Model of the Lyria Studio backend: the /analyze-prompt request flow of  *)
(* backend/api.py and analyze_prompt_for_weighted_components of            *)
(* backend/prompt_analyzer.py (edit detection, component filtering and     *)
(* weight normalisation, parameter defaults and clamping, error wrapping). *)
(*                                                                         *)
(* Numbers are exact rationals <<n, d>> (d > 0, lowest terms), so Python   *)
(* float arithmetic is modelled up to rounding error; int() truncates      *)
(* toward zero as Python's does.  A string that is trimmed and measured is *)
(* a record of its leading whitespace, its body and its trailing           *)
(* whitespace; a string that is searched is a tuple of characters.         *)
(***************************************************************************)
EXTENDS Integers, Sequences, FiniteSets, TLC

----------------------------------------------------------------------------
(* Bounds of the model *)

\* longest candidate list the collaborator returns
MaxCands == 3
\* longest instruction generated over InstrAlphabet
MaxInstrLen == 3

----------------------------------------------------------------------------
(* Exact rational arithmetic standing for Python floats *)

Abs(n) == IF n < 0 THEN -n ELSE n

RECURSIVE GCD(_, _)
GCD(a, b) == IF b = 0 THEN a ELSE GCD(b, a % b)

\* the rational n/d in lowest terms with a positive denominator
Rat(n, d) ==
    LET s == IF d < 0 THEN -1 ELSE 1
        g == GCD(Abs(n), Abs(d))
    IN  <<(s * n) \div g, (s * d) \div g>>

Whole(n) == <<n, 1>>
RAdd(a, b) == Rat(a[1] * b[2] + b[1] * a[2], a[2] * b[2])
RDiv(a, b) == Rat(a[1] * b[2], a[2] * b[1])
RLess(a, b) == a[1] * b[2] < b[1] * a[2]
RLeq(a, b) == a[1] * b[2] <= b[1] * a[2]
RMin(a, b) == IF RLess(b, a) THEN b ELSE a
RMax(a, b) == IF RLess(a, b) THEN b ELSE a

RECURSIVE RSum(_)
RSum(s) == IF s = <<>> THEN Whole(0) ELSE RAdd(s[1], RSum(Tail(s)))

\* int(x) of a number: truncation toward zero
PyInt(r) == IF r[1] >= 0 THEN r[1] \div r[2] ELSE -((-r[1]) \div r[2])

----------------------------------------------------------------------------
(* Strings that are trimmed and measured *)

\* a string: pre/post are the counts of leading/trailing whitespace, body
\* names the characters between them and len is how many they are
Str(pre, body, len, post) == [pre |-> pre, body |-> body, len |-> len, post |-> post]

\* len(s)
PyLen(s) == s.pre + s.len + s.post

\* s.strip(): leading and trailing whitespace removed
Strip(s) == [s EXCEPT !.pre = 0, !.post = 0]

----------------------------------------------------------------------------
(* Edit detection: prompt_analyzer.py lines 39-49 *)

\* edit_keywords, each keyword as its characters, in the order of the list
edit_keywords ==
    << <<"a", "d", "d">>,
       <<"r", "e", "m", "o", "v", "e">>,
       <<"m", "o", "r", "e">>,
       <<"l", "e", "s", "s">>,
       <<"i", "n", "c", "r", "e", "a", "s", "e">>,
       <<"d", "e", "c", "r", "e", "a", "s", "e">>,
       <<"c", "h", "a", "n", "g", "e">>,
       <<"m", "a", "k", "e", " ", "i", "t">>,
       <<"m", "a", "k", "e", " ", "t", "h", "e">>,
       <<"t", "u", "r", "n", " ", "i", "t">>,
       <<"a", "d", "j", "u", "s", "t">>,
       <<"f", "a", "s", "t", "e", "r">>,
       <<"s", "l", "o", "w", "e", "r">>,
       <<"q", "u", "i", "e", "t", "e", "r">>,
       <<"l", "o", "u", "d", "e", "r">> >>

\* str.lower() on one character
LowerChar(c) ==
    LET upper == [A |-> "a", B |-> "b", C |-> "c", D |-> "d", E |-> "e", F |-> "f", G |-> "g", H |-> "h", I |-> "i", J |-> "j", K |-> "k", L |-> "l", M |-> "m", N |-> "n", O |-> "o", P |-> "p", Q |-> "q", R |-> "r", S |-> "s", T |-> "t", U |-> "u", V |-> "v", W |-> "w", X |-> "x", Y |-> "y", Z |-> "z"]
    IN  IF c \in DOMAIN upper THEN upper[c] ELSE c

\* prompt.lower()
Lower(s) == [i \in 1..Len(s) |-> LowerChar(s[i])]

\* keyword in prompt_lower: substring containment
Contains(hay, needle) ==
    \E i \in 1..(Len(hay) - Len(needle) + 1) :
        SubSeq(hay, i, i + Len(needle) - 1) = needle

\* mutant of looks_like_edit: the prompt is not lower-cased
looks_like_edit_CaseSensitive(prompt) ==
    \E k \in 1..Len(edit_keywords) : Contains(prompt, edit_keywords[k])

\* any(keyword in prompt_lower for keyword in edit_keywords)
looks_like_edit(prompt) ==
    LET prompt_lower == Lower(prompt)
    IN  \E k \in 1..Len(edit_keywords) : Contains(prompt_lower, edit_keywords[k])

\* `if previous_context:` - the dict the handler builds has two keys, so it
\* is truthy exactly when the request carried a previous context
Truthy(ctx) == ctx.present

\* is_edit as lines 41-49 leave it
DetectEdit(prompt, ctx) == IF Truthy(ctx) THEN looks_like_edit(prompt) ELSE FALSE

\* instructions used as inputs
AddMorePiano == <<"a", "d", "d", " ", "m", "o", "r", "e", " ", "p", "i", "a", "n", "o">>
TotallyNewJazzTrack == <<"a", " ", "t", "o", "t", "a", "l", "l", "y", " ", "n", "e", "w", " ", "j", "a", "z", "z", " ", "t", "r", "a", "c", "k">>
Addendum == <<"A", "D", "D", "E", "N", "D", "U", "M">>
CatchyPopSong == <<"i", " ", "w", "a", "n", "t", " ", "a", " ", "c", "a", "t", "c", "h", "y", " ", "p", "o", "p", " ", "s", "o", "n", "g">>
MakeItLouder == <<"M", "a", "k", "e", " ", "I", "t", " ", "L", "o", "u", "d", "e", "r">>
JazzBallad == <<"s", "l", "o", "w", " ", "j", "a", "z", "z", " ", "b", "a", "l", "l", "a", "d">>

----------------------------------------------------------------------------
(* Component validation and weight normalisation: lines 391-426 *)

\* longest text a component may have (line 404)
MaxTagLen == 50

\* a JSON value handed to float() or int(): a number, a non-numeric
\* string, or null; "absent" is a key the object does not have
Num(r) == [kind |-> "num", val |-> r]
BadString == [kind |-> "str", val |-> Whole(0)]
Null == [kind |-> "null", val |-> Whole(0)]
AbsentValue == [kind |-> "absent", val |-> Whole(0)]

\* the exception float(v) or int(v) raises, "none" when it converts
ConversionError(v, fn) ==
    CASE v.kind = "num" -> "none"
      [] v.kind = "str" ->
            IF fn = "int" THEN "ValueError: invalid literal for int() with base 10"
            ELSE "ValueError: could not convert string to float"
      [] OTHER -> "TypeError: " \o fn \o "() argument must be a string or a real number"

\* one element of result["components"]
Candidate(text, weight) ==
    [isDict |-> TRUE, hasText |-> TRUE, hasWeight |-> TRUE, text |-> text, weight |-> weight]

\* the test of line 401
WellFormed(comp) == comp.isDict /\ comp.hasText /\ comp.hasWeight

\* mutant of TooLong: the bound taken one too low
TooLong_OffByOne(text) == PyLen(text) >= MaxTagLen

\* line 404, the guard against a component that echoes the prompt
TooLong(text) == PyLen(text) > MaxTagLen

\* the loop of lines 399-407 over the components left, valid being
\* valid_components so far; raised names the exception that ended it
RECURSIVE ValidateComponents(_, _)
ValidateComponents(comps, valid) ==
    IF comps = <<>> THEN [raised |-> "none", valid |-> valid]
    ELSE LET comp == Head(comps)
             text == Strip(comp.text)
         IN  IF ~WellFormed(comp) THEN ValidateComponents(Tail(comps), valid)
             ELSE IF TooLong(text) THEN ValidateComponents(Tail(comps), valid)
             ELSE IF ConversionError(comp.weight, "float") # "none"
                  THEN [raised |-> ConversionError(comp.weight, "float"), valid |-> valid]
             ELSE ValidateComponents(Tail(comps),
                      Append(valid, [text |-> text, weight |-> comp.weight.val]))

\* line 414
TotalWeight(valid) == RSum([i \in 1..Len(valid) |-> valid[i].weight])

\* mutant of NormalizeWeights: no equal weights when the total is not positive
NormalizeWeights_NoFallback(valid) ==
    LET total_weight == TotalWeight(valid)
    IN  IF RLess(Whole(0), total_weight)
        THEN [i \in 1..Len(valid) |->
                 [text |-> valid[i].text, weight |-> RDiv(valid[i].weight, total_weight)]]
        ELSE valid

\* mutant of NormalizeWeights: the list comes out in reverse order
NormalizeWeights_Reversed(valid) ==
    LET total_weight == TotalWeight(valid)
        back(i) == valid[Len(valid) + 1 - i]
    IN  IF RLess(Whole(0), total_weight)
        THEN [i \in 1..Len(valid) |->
                 [text |-> back(i).text, weight |-> RDiv(back(i).weight, total_weight)]]
        ELSE [i \in 1..Len(valid) |->
                 [text |-> back(i).text, weight |-> Rat(1, Len(valid))]]

\* mutant of NormalizeWeights: weights divided by the count, not by the total
NormalizeWeights_ByCount(valid) ==
    LET total_weight == TotalWeight(valid)
    IN  IF RLess(Whole(0), total_weight)
        THEN [i \in 1..Len(valid) |->
                 [text |-> valid[i].text,
                  weight |-> RDiv(valid[i].weight, Whole(Len(valid)))]]
        ELSE [i \in 1..Len(valid) |->
                 [text |-> valid[i].text, weight |-> Rat(1, Len(valid))]]

\* lines 415-426: rescale by the total, or equal weights when it is not positive
NormalizeWeights(valid) ==
    LET total_weight == TotalWeight(valid)
    IN  IF RLess(Whole(0), total_weight)
        THEN [i \in 1..Len(valid) |->
                 [text |-> valid[i].text, weight |-> RDiv(valid[i].weight, total_weight)]]
        ELSE [i \in 1..Len(valid) |->
                 [text |-> valid[i].text, weight |-> Rat(1, Len(valid))]]

----------------------------------------------------------------------------
(* Parameters: lines 428-437 *)

DefaultBpm == 90
MinBpm == 60
MaxBpm == 180
DefaultGuidance == Whole(7)
DefaultDensity == Rat(1, 2)

\* result["parameters"]; present is whether the result has the key
Parameters(bpm, guidance, density) ==
    [present |-> TRUE, bpm |-> bpm, guidance |-> guidance, density |-> density]
NoParameters ==
    [present |-> FALSE, bpm |-> AbsentValue, guidance |-> AbsentValue, density |-> AbsentValue]

\* mutant of GetOr: a missing key reads as 0, the default ignored
GetOr_NoDefault(v, default) == IF v.kind = "absent" THEN Num(Whole(0)) ELSE v

\* params.get(key, default)
GetOr(v, default) == IF v.kind = "absent" THEN Num(default) ELSE v

\* line 435
ClampBpm(bpm) ==
    LET lo == IF MaxBpm < bpm THEN MaxBpm ELSE bpm
    IN  IF lo < MinBpm THEN MinBpm ELSE lo

\* mutant of Clamp: the upper limit not applied
Clamp_LowerOnly(x, lo, hi) == RMax(lo, x)

\* lines 436 and 437: max(lo, min(hi, x))
Clamp(x, lo, hi) == RMax(lo, RMin(hi, x))

\* lines 429-437; raised names the exception of the first conversion that fails
ExtractParameters(params) ==
    LET bpm == GetOr(params.bpm, Whole(DefaultBpm))
        guidance == GetOr(params.guidance, DefaultGuidance)
        density == GetOr(params.density, DefaultDensity)
        failed(r) == [raised |-> r, parameters |-> <<>>]
    IN  IF ConversionError(bpm, "int") # "none" THEN failed(ConversionError(bpm, "int"))
        ELSE IF ConversionError(guidance, "float") # "none"
             THEN failed(ConversionError(guidance, "float"))
        ELSE IF ConversionError(density, "float") # "none"
             THEN failed(ConversionError(density, "float"))
        ELSE [raised |-> "none",
              parameters |-> [bpm |-> ClampBpm(PyInt(bpm.val)),
                              guidance |-> Clamp(guidance.val, Whole(1), Whole(10)),
                              density |-> Clamp(density.val, Whole(0), Whole(1))]]

----------------------------------------------------------------------------
(* analyze_prompt_for_weighted_components from the collaborator's reply on: *)
(* lines 354-466                                                           *)

\* what model.generate_content gave back: it raised, or its text is empty,
\* is not JSON, is a JSON object, or is a JSON object in a ```json fence;
\* hasComponents/components/parameters describe the JSON object
Reply(text, hasComponents, components, parameters) ==
    [text |-> text, hasComponents |-> hasComponents,
     components |-> components, parameters |-> parameters]
NoReply == Reply("none", FALSE, <<>>, NoParameters)

NoResult == [weighted_prompts |-> <<>>, parameters |-> <<>>]
NoError == [kind |-> "none", message |-> ""]

\* an exception leaving the function
Raise(kind, message) == [outcome |-> "error", result |-> NoResult,
                         error |-> [kind |-> kind, message |-> message]]

\* line 37
NotConfigured ==
    Raise("ValueError",
          "Gemini AI is not available. Please check GOOGLE_API_KEY environment variable.")

\* mutant of Reraise: the message of the original exception is dropped
Reraise_Generic(exc) == Raise("ValueError", "AI analysis failed")

\* lines 458-466: any other exception of the try block is raised again as
\* ValueError, exc being "<type of the exception>: <its message>"
Reraise(exc) == Raise("ValueError", "AI analysis failed: " \o exc)

\* lines 448-453: json.loads failed
JsonError == Raise("ValueError", "Failed to parse AI response as JSON")

\* lines 391-446 on the parsed object
AnalyzeResult(reply) ==
    LET components == IF reply.hasComponents THEN reply.components ELSE <<>>
        validated == ValidateComponents(components, <<>>)
        extracted == ExtractParameters(reply.parameters)
    IN  IF components = <<>> THEN Reraise("ValueError: No components returned from AI")
        ELSE IF validated.raised # "none" THEN Reraise(validated.raised)
        ELSE IF validated.valid = <<>>
             THEN Reraise("ValueError: No valid components after validation")
        ELSE IF extracted.raised # "none" THEN Reraise(extracted.raised)
        ELSE [outcome |-> "ok",
              result |-> [weighted_prompts |-> NormalizeWeights(validated.valid),
                          parameters |-> extracted.parameters],
              error |-> NoError]

\* lines 354-466
AnalyzeReply(reply) ==
    CASE reply.text = "raised" -> Reraise("ServiceUnavailable: model unreachable")
      [] reply.text = "empty" ->
            Reraise("ValueError: Failed to extract text from AI response: "
                    \o "AI model returned empty response")
      [] reply.text = "not json" -> JsonError
      [] OTHER -> AnalyzeResult(reply)

----------------------------------------------------------------------------
(* The /analyze-prompt handler: api.py lines 54-83 *)

NoHttp == [status |-> 0, detail |-> "", body |-> NoResult]

\* mutant of HttpResponse: a failed analysis is answered with the defaults
\* of lines 71-76 instead of an error
HttpResponse_Fallback(analysis) ==
    IF analysis.outcome = "ok"
    THEN [status |-> 200, detail |-> "", body |-> analysis.result]
    ELSE [status |-> 200, detail |-> "",
          body |-> [weighted_prompts |-> <<>>,
                    parameters |-> [bpm |-> DefaultBpm, guidance |-> DefaultGuidance,
                                    density |-> DefaultDensity]]]

\* lines 69-83: the response the handler gives for what the analysis did
HttpResponse(analysis) ==
    IF analysis.outcome = "ok"
    THEN [status |-> 200, detail |-> "", body |-> analysis.result]
    ELSE [status |-> 500,
          detail |-> "AI analysis failed: " \o analysis.error.message
                     \o ". Please check your prompt and try again.",
          body |-> NoResult]

\* previous_context as lines 58-63 build it
Context(weighted_prompts, parameters) ==
    [present |-> TRUE, weighted_prompts |-> weighted_prompts, parameters |-> parameters]
NoContext == [present |-> FALSE, weighted_prompts |-> <<>>, parameters |-> NoParameters]

----------------------------------------------------------------------------
(* The /generate handler: api.py lines 86-122, lyria_generator.py 20-106 *)

\* an optional string field of the request body
Given(text) == [present |-> TRUE, value |-> text]
NotGiven == [present |-> FALSE, value |-> Str(0, "", 0, 0)]

\* GenerateRequest (api.py lines 31-37); hasWeighted is whether
\* weighted_prompts was sent
GenerateRequest(prompt_field, hasWeighted, weighted_prompts) ==
    [prompt |-> prompt_field, hasWeighted |-> hasWeighted,
     weighted_prompts |-> weighted_prompts,
     duration |-> 15, bpm |-> 90, guidance |-> Rat(7, 1), density |-> Rat(1, 2)]
NoGenerateRequest == GenerateRequest(NotGiven, FALSE, <<>>)

\* `if req.weighted_prompts:` and `elif req.prompt:` (lines 92 and 95)
HasWeightedPrompts(req) == req.hasWeighted /\ req.weighted_prompts # <<>>
HasPrompt(req) == req.prompt.present /\ PyLen(req.prompt.value) > 0

\* weighted_prompts_data of lines 93 and 97
WeightedPromptsData(req) ==
    IF HasWeightedPrompts(req) THEN req.weighted_prompts
    ELSE <<[text |-> req.prompt.value, weight |-> Whole(1)]>>

\* the parameters of generate_music_file (lyria_generator.py lines 20-25)
GeneratorParameters == {"prompt", "negative_prompt", "seed", "output_filename"}
GeneratorRequired == {"prompt"}

\* the keywords of the call at api.py lines 104-111
CallKeywords ==
    {"weighted_prompts", "duration_seconds", "bpm", "guidance", "density", "output_filename"}

\* binding the keywords of a call to a function's parameters: the
\* TypeError Python raises, "none" when the call binds
BindError(keywords, parameters, required) ==
    IF ~(keywords \subseteq parameters)
    THEN "generate_music_file() got an unexpected keyword argument"
    ELSE IF ~(required \subseteq keywords)
    THEN "generate_music_file() missing 1 required positional argument"
    ELSE "none"

\* generate_music_file (lyria_generator.py lines 28-106) in environment env:
\* it raises (no credentials file), returns None (any failure inside its
\* try block) or returns the name of the file it wrote
GenerateMusicFile(env) ==
    CASE env = "no credentials" ->
            [raised |-> "Credentials file not found", path |-> "None"]
      [] env = "audio" -> [raised |-> "none", path |-> "track.wav"]
      [] OTHER -> [raised |-> "none", path |-> "None"]

\* what the generator's environment can do
LyriaEnvironments ==
    {"no credentials", "predict raised", "no predictions", "no audio field", "audio"}

BadRequestDetail == "Either 'prompt' or 'weighted_prompts' must be provided"

\* str(e) of an HTTPException: "<status>: <detail>" or "", by the version
\* of the framework
StrOfHttpException(status, detail) == {status \o ": " \o detail, ""}

\* an exception caught at line 120 and raised again as HTTP 500
ServerError(detail) == [status |-> 500, detail |-> detail, body |-> NoResult]

\* lines 88-122: the responses the handler can give to req in environment
\* env, each with whether the body of generate_music_file ran
GenerateResponses(req, env) ==
    LET bind == BindError(CallKeywords, GeneratorParameters, GeneratorRequired)
        generated == GenerateMusicFile(env)
    IN  IF ~HasWeightedPrompts(req) /\ ~HasPrompt(req)
        THEN {[entered |-> FALSE, http |-> ServerError(d)] :
                 d \in StrOfHttpException("400", BadRequestDetail)}
        ELSE IF bind # "none"
        THEN {[entered |-> FALSE, http |-> ServerError(bind)]}
        ELSE IF generated.raised # "none"
        THEN {[entered |-> TRUE, http |-> ServerError(generated.raised)]}
        ELSE IF generated.path = "None"
        THEN {[entered |-> TRUE, http |-> ServerError(d)] :
                 d \in StrOfHttpException("500", "Error en Lyria Generator")}
        ELSE {[entered |-> TRUE,
               http |-> [status |-> 200, detail |-> "",
                         body |-> [file |-> generated.path,
                                   breakdown |-> WeightedPromptsData(req)]]]}

----------------------------------------------------------------------------
(* State *)

VARIABLES
    configured,        \* API_KEY and GEMINI_AVAILABLE (module level, lines 6-20)
    pc,                \* "idle", "awaiting" (inside generate_content), "done"
    prompt,            \* req.prompt
    previous_context,  \* the dict of api.py lines 58-63
    is_edit,           \* is_edit of line 41
    reply,             \* the collaborator's reply to this request
    outcome,           \* "none", "ok" (returned) or "error" (raised)
    result,            \* the dict returned at line 439
    error,             \* the exception that left the function
    http,              \* the handler's response
    last_failure,      \* the failure of the latest earlier request that failed
    gen_request,       \* req of generate_audio
    lyria,             \* what the music generator's environment does
    generator_entered  \* the body of generate_music_file ran for this request

vars == <<configured, pc, prompt, previous_context, is_edit, reply, outcome,
          result, error, http, last_failure, gen_request, lyria, generator_entered>>

\* the state of a /generate request
gen_vars == <<gen_request, lyria, generator_entered>>

\* why an analysis with this configuration and reply cannot succeed
FailureCause(conf, r) ==
    CASE ~conf -> "not configured"
      [] r.text \in {"raised", "empty", "not json"} -> r.text
      [] ~r.hasComponents \/ r.components = <<>> -> "no components"
      [] \A i \in 1..Len(r.components) :
            ~WellFormed(r.components[i]) \/ TooLong(Strip(r.components[i].text))
         -> "none valid"
      [] OTHER -> "conversion"

NoFailure == [cause |-> "none", error |-> NoError]

Init ==
    /\ configured \in BOOLEAN
    /\ pc = "idle"
    /\ prompt = <<>>
    /\ previous_context = NoContext
    /\ is_edit = FALSE
    /\ reply = NoReply
    /\ outcome = "none"
    /\ result = NoResult
    /\ error = NoError
    /\ http = NoHttp
    /\ last_failure = NoFailure
    /\ gen_request = NoGenerateRequest
    /\ lyria = "idle"
    /\ generator_entered = FALSE

\* A request arrives (api.py 54-68) and the analysis runs up to the call of
\* the collaborator (prompt_analyzer.py 36-354)
AnalyzePromptOf(prompts, contexts) ==
    /\ pc = "idle"
    /\ \E p \in prompts, c \in contexts :
        /\ prompt' = p
        /\ previous_context' = c
        /\ IF ~configured
           THEN /\ pc' = "done"
                /\ is_edit' = FALSE
                /\ outcome' = NotConfigured.outcome
                /\ result' = NotConfigured.result
                /\ error' = NotConfigured.error
                /\ http' = HttpResponse(NotConfigured)
           ELSE /\ pc' = "awaiting"
                /\ is_edit' = DetectEdit(p, c)
                /\ UNCHANGED <<outcome, result, error, http>>
    /\ UNCHANGED <<configured, reply, last_failure, gen_vars>>

\* The collaborator replies; the analysis finishes (prompt_analyzer.py
\* 354-466) and the handler answers (api.py 69-83)
ModelRepliesWith(replies) ==
    /\ pc = "awaiting"
    /\ \E r \in replies : \E analysis \in {AnalyzeReply(r)} :
        /\ reply' = r
        /\ outcome' = analysis.outcome
        /\ result' = analysis.result
        /\ error' = analysis.error
        /\ http' = HttpResponse(analysis)
    /\ pc' = "done"
    /\ UNCHANGED <<configured, prompt, previous_context, is_edit, last_failure, gen_vars>>

\* The handler has answered; the server waits for the next request
NextRequest ==
    /\ pc = "done"
    /\ pc' = "idle"
    /\ last_failure' = IF outcome = "error"
                       THEN [cause |-> FailureCause(configured, reply), error |-> error]
                       ELSE last_failure
    /\ prompt' = <<>>
    /\ previous_context' = NoContext
    /\ is_edit' = FALSE
    /\ reply' = NoReply
    /\ outcome' = "none"
    /\ result' = NoResult
    /\ error' = NoError
    /\ http' = NoHttp
    /\ gen_request' = NoGenerateRequest
    /\ lyria' = "idle"
    /\ generator_entered' = FALSE
    /\ UNCHANGED configured

\* A /generate request is handled (api.py lines 86-122)
GenerateAudioOf(requests) ==
    /\ pc = "idle"
    /\ \E req \in requests, env \in LyriaEnvironments :
        \E response \in GenerateResponses(req, env) :
            /\ gen_request' = req
            /\ lyria' = env
            /\ generator_entered' = response.entered
            /\ http' = response.http
    /\ pc' = "done"
    /\ UNCHANGED <<configured, prompt, previous_context, is_edit, reply, outcome,
                   result, error, last_failure>>

----------------------------------------------------------------------------
(* Inputs *)

\* "pop", " piano ", "drums", a 50-character tag, the same tag with a space
\* on each side (52 characters), a 51-character text, "x" * 60
Pop == Str(0, "pop", 3, 0)
Piano == Str(1, "piano", 5, 1)
Drums == Str(0, "drums", 5, 0)
Tag50 == Str(0, "tag of fifty", MaxTagLen, 0)
Padded50 == Str(1, "tag of fifty", MaxTagLen, 1)
Text51 == Str(0, "text of fifty-one", MaxTagLen + 1, 0)
Echo60 == Str(0, "x * 60", MaxTagLen + 10, 0)

\* raw weights: negative, zero, positive, fractional
RawWeights == {Whole(-1), Whole(0), Rat(1, 2), Whole(1), Whole(2)}

\* elements that fail the test of line 401
NoWeightField == [Candidate(Drums, Num(Whole(1))) EXCEPT !.hasWeight = FALSE]
NotADict == [Candidate(Pop, Num(Whole(1))) EXCEPT !.isDict = FALSE]

\* the candidates of the normaliser's lists: short tags with every raw
\* weight, a tag at the length limit, texts beyond it, weights float()
\* rejects, malformed elements
Candidates ==
    {Candidate(t, Num(w)) : t \in {Pop, Piano}, w \in RawWeights}
    \cup {Candidate(Drums, Num(Whole(1))), Candidate(Padded50, Num(Whole(2))),
          Candidate(Text51, Num(Whole(2))), Candidate(Echo60, BadString),
          Candidate(Drums, Null), NoWeightField, NotADict}

ListsOver(S) == UNION {[1..n -> S] : n \in 0..MaxCands}

\* a reply that is a JSON object with these components and no parameters
ComponentsReply(components) == Reply("json", TRUE, components, NoParameters)

ComponentReplies == {ComponentsReply(cs) : cs \in ListsOver(Candidates)}

\* "" and a text of two spaces
EmptyText == Str(0, "", 0, 0)
BlankText == Str(2, "", 0, 0)

\* candidates whose texts vary from empty to beyond the limit
TextCandidates ==
    {Candidate(t, Num(Whole(1))) : t \in {Pop, Piano, EmptyText, BlankText, Padded50, Text51}}
TextReplies == {ComponentsReply(cs) : cs \in ListsOver(TextCandidates)}

\* raw parameter values: absent, below, inside and above each range,
\* fractional tempos, and values no conversion accepts
RawBpm == {AbsentValue, Null, BadString}
          \cup {Num(r) : r \in {Whole(300), Rat(1207, 10), Rat(898, 5), Rat(119, 2),
                                Whole(60), Whole(120), Whole(180), Whole(-2),
                                Rat(-1, 2), Rat(1811, 10)}}
RawGuidance == {AbsentValue, BadString}
               \cup {Num(r) : r \in {Whole(-2), Whole(1), Rat(15, 2), Whole(10), Whole(12)}}
RawDensity == {AbsentValue, Null}
              \cup {Num(r) : r \in {Rat(3, 2), Whole(0), Rat(3, 10), Whole(1), Rat(-1, 2)}}

PopPianoDrums == <<Candidate(Pop, Num(Whole(2))), Candidate(Piano, Num(Whole(1))),
                   Candidate(Drums, Num(Whole(1)))>>

ParameterReplies ==
    {Reply("json", TRUE, PopPianoDrums, NoParameters)}
    \cup {Reply("json", TRUE, PopPianoDrums, Parameters(b, g, d)) :
             b \in RawBpm, g \in RawGuidance, d \in RawDensity}

\* the previous track a request may carry
PreviousTrack ==
    Context(<<[text |-> Pop, weight |-> Rat(1, 2)], [text |-> Drums, weight |-> Rat(1, 2)]>>,
            Parameters(Num(Whole(120)), AbsentValue, AbsentValue))
\* a previous context whose list is empty: the dict is still truthy
EmptyTrack == Context(<<>>, NoParameters)

\* instructions of at most MaxInstrLen characters over a small alphabet
InstrAlphabet == {"a", "d", "A", "D", " "}
ShortInstructions == UNION {[1..n -> InstrAlphabet] : n \in 0..MaxInstrLen}

Instructions ==
    {AddMorePiano, TotallyNewJazzTrack, Addendum, CatchyPopSong, MakeItLouder, JazzBallad}
    \cup ShortInstructions

\* the replies of the whole request flow
FlowCandidates ==
    {Candidate(Pop, Num(Whole(2))), Candidate(Piano, Num(Whole(0))),
     Candidate(Echo60, Num(Whole(1))), Candidate(Drums, BadString), NoWeightField}
FlowParameters ==
    {NoParameters,
     Parameters(Num(Whole(300)), Num(Whole(-2)), Num(Rat(3, 2))),
     Parameters(Num(Whole(120)), Null, AbsentValue)}
FlowReplies ==
    {Reply(t, FALSE, <<>>, NoParameters) : t \in {"raised", "empty", "not json", "json"}}
    \cup {Reply(t, TRUE, cs, ps) :
             t \in {"json", "fenced json"}, cs \in ListsOver(FlowCandidates),
             ps \in FlowParameters}

\* the /generate requests: prompt absent, empty or given; weighted_prompts
\* absent or a list of at most MaxCands entries
Jazz == Str(0, "jazz", 4, 0)
WeightedPromptEntries ==
    {[text |-> Pop, weight |-> Rat(1, 2)], [text |-> Drums, weight |-> Whole(1)]}
GenerateRequests ==
    {GenerateRequest(p, FALSE, <<>>) : p \in {NotGiven, Given(Str(0, "", 0, 0)), Given(Jazz)}}
    \cup {GenerateRequest(p, TRUE, ws) :
             p \in {NotGiven, Given(Str(0, "", 0, 0)), Given(Jazz)},
             ws \in ListsOver(WeightedPromptEntries)}

----------------------------------------------------------------------------
(* Specifications *)

\* the request flow
AnalyzePrompt ==
    AnalyzePromptOf({AddMorePiano, TotallyNewJazzTrack}, {NoContext, PreviousTrack})
ModelReplies == ModelRepliesWith(FlowReplies)
Next == AnalyzePrompt \/ ModelReplies \/ NextRequest
Spec == Init /\ [][Next]_vars

\* one request whose reply varies in its components
NormalizeRequest == AnalyzePromptOf({CatchyPopSong}, {NoContext})
NormalizeReply == ModelRepliesWith(ComponentReplies)
NextNormalize == NormalizeRequest \/ NormalizeReply
SpecNormalize == Init /\ [][NextNormalize]_vars

\* one request, on the edit path or the new-track path, whose reply varies
\* in its parameters
ParametersRequest ==
    AnalyzePromptOf({AddMorePiano, CatchyPopSong}, {NoContext, PreviousTrack})
ParametersReply == ModelRepliesWith(ParameterReplies)
NextParameters == ParametersRequest \/ ParametersReply
SpecParameters == Init /\ [][NextParameters]_vars

\* one request whose instruction and previous context vary
ClassifyRequest == AnalyzePromptOf(Instructions, {NoContext, PreviousTrack, EmptyTrack})
ClassifyReply == ModelRepliesWith({ComponentsReply(PopPianoDrums)})
NextClassify == ClassifyRequest \/ ClassifyReply
SpecClassify == Init /\ [][NextClassify]_vars

\* one request whose reply varies in the texts of its components
TextsRequest == AnalyzePromptOf({CatchyPopSong}, {NoContext})
TextsReply == ModelRepliesWith(TextReplies)
NextTexts == TextsRequest \/ TextsReply
SpecTexts == Init /\ [][NextTexts]_vars

\* the /generate requests
GenerateAudio == GenerateAudioOf(GenerateRequests)
NextGenerate == GenerateAudio
SpecGenerate == Init /\ [][NextGenerate]_vars

----------------------------------------------------------------------------
(* Properties *)

\* the analysis returned a result to the handler
Returned == pc = "done" /\ outcome = "ok"
Out == result.weighted_prompts
OutWeights == [i \in 1..Len(Out) |-> Out[i].weight]

\* the candidates of the reply that pass the filter, in the reply's order
Kept(c) == c.isDict /\ c.hasText /\ c.hasWeight /\ c.text.len <= MaxTagLen
Survivors == SelectSeq(reply.components, Kept)
SurvivorSum == RSum([i \in 1..Len(Survivors) |-> Survivors[i].weight.val])

\* C1: whenever the analysis returns, the weights of the returned
\* weighted_prompts sum to 1, whatever the raw weights were.
C1_WeightsSumToOne == Returned => RSum(OutWeights) = Whole(1)

\* C1 witness: a result whose surviving raw weights are mixed, one negative
\* and one positive
C1_Witness ==
    /\ Returned
    /\ \E i, j \in 1..Len(Survivors) :
          /\ RLess(Survivors[i].weight.val, Whole(0))
          /\ RLess(Whole(0), Survivors[j].weight.val)

\* C2: every weight of a returned list is non-negative, negative raw
\* weights included.
C2_WeightsNonNegative ==
    Returned => \A i \in 1..Len(Out) : RLeq(Whole(0), Out[i].weight)

\* C3: with S the sum of the survivors' weights, S > 0 gives each component
\* its weight divided by S and S = 0 gives each 1/N; the output has the
\* survivors' texts in the survivors' order.
C3_RescaleOrUniform ==
    Returned =>
        /\ Len(Out) = Len(Survivors)
        /\ \A i \in 1..Len(Out) :
              /\ Out[i].text = Strip(Survivors[i].text)
              /\ RLess(Whole(0), SurvivorSum) =>
                    Out[i].weight = RDiv(Survivors[i].weight.val, SurvivorSum)
              /\ SurvivorSum = Whole(0) => Out[i].weight = Rat(1, Len(Survivors))

\* C3 witness: weights 2, 1, 1 returned as 1/2, 1/4, 1/4
C3_Witness ==
    /\ Returned
    /\ reply.components = PopPianoDrums
    /\ OutWeights = <<Rat(1, 2), Rat(1, 4), Rat(1, 4)>>
    /\ [i \in 1..Len(Out) |-> Out[i].text] = <<Pop, Strip(Piano), Drums>>

\* C4: a candidate whose trimmed text is longer than 50 characters is never
\* in the output and its weight is not part of the sum the others are
\* divided by; every well-formed candidate of at most 50 trimmed characters
\* is kept, in place and not rewritten.
C4_LengthFilter ==
    Returned =>
        /\ \A i \in 1..Len(Out) : PyLen(Out[i].text) <= MaxTagLen
        /\ Len(Out) = Len(Survivors)
        /\ \A i \in 1..Len(Out) :
              /\ Out[i].text.body = Survivors[i].text.body
              /\ Out[i].text.len = Survivors[i].text.len
              /\ RLess(Whole(0), SurvivorSum) =>
                    Out[i].weight = RDiv(Survivors[i].weight.val, SurvivorSum)

\* C4 witness: a too-long candidate with a positive weight is dropped while
\* a 50-character tag padded with whitespace is kept
C4_Witness ==
    /\ Returned
    /\ \E i, j \in 1..Len(reply.components) :
          /\ reply.components[i] = Candidate(Text51, Num(Whole(2)))
          /\ reply.components[j] = Candidate(Padded50, Num(Whole(2)))
    /\ \E k \in 1..Len(Out) : Out[k].text = Tag50
    /\ \A k \in 1..Len(Out) : Out[k].text # Text51

\* the two failures of the normaliser met in two requests, in either order
EmptyAndNoneValid ==
    /\ pc = "done"
    /\ outcome = "error"
    /\ {last_failure.cause, FailureCause(configured, reply)}
          = {"no components", "none valid"}

NoComponentsError ==
    [kind |-> "ValueError",
     message |-> "AI analysis failed: ValueError: No components returned from AI"]
NoneValidError ==
    [kind |-> "ValueError",
     message |-> "AI analysis failed: ValueError: No valid components after validation"]

EditKeywords == {edit_keywords[k] : k \in 1..Len(edit_keywords)}

\* keyword occurs in the instruction at some offset, letter case ignored
OccursIn(keyword, instruction) ==
    \E o \in 0..(Len(instruction) - Len(keyword)) :
        \A j \in 1..Len(keyword) : LowerChar(instruction[o + j]) = keyword[j]

Raw == reply.parameters
Params == result.parameters

\* C7: every returned bpm is an integer in [60, 180], every returned guidance
\* is in [1, 10] and every returned density in [0, 1], on both paths.
C7_ParametersInRange ==
    Returned =>
        /\ Params.bpm \in MinBpm..MaxBpm
        /\ RLeq(Whole(1), Params.guidance) /\ RLeq(Params.guidance, Whole(10))
        /\ RLeq(Whole(0), Params.density) /\ RLeq(Params.density, Whole(1))

\* C7 witness: on the edit path bpm 300, guidance -2, density 1.5 are
\* returned as 180, 1, 1
C7_Witness ==
    /\ Returned
    /\ is_edit
    /\ Raw = Parameters(Num(Whole(300)), Num(Whole(-2)), Num(Rat(3, 2)))
    /\ Params = [bpm |-> 180, guidance |-> Whole(1), density |-> Whole(1)]

\* k is a nearest integer of the rational r
Nearest(k, r) == 2 * Abs(k * r[2] - r[1]) <= r[2]

\* C8: the returned tempo is the collaborator's tempo rounded to the nearest
\* integer and then clamped to [60, 180].
C8_TempoRounded ==
    (Returned /\ Raw.bpm.kind = "num") =>
        \E k \in (PyInt(Raw.bpm.val) - 1)..(PyInt(Raw.bpm.val) + 1) :
            /\ Nearest(k, Raw.bpm.val)
            /\ Params.bpm = (IF k < 60 THEN 60 ELSE IF k > 180 THEN 180 ELSE k)

\* x restricted to [lo, hi]
Within(x, lo, hi) == IF RLess(x, lo) THEN lo ELSE IF RLess(hi, x) THEN hi ELSE x

\* C9: each parameter the reply lacks gets its default (90, 7.0, 0.5)
\* whatever the other fields are, each parameter it has keeps its clamped
\* value, and a reply without parameters gives exactly the defaults.
C9_DefaultsPerField ==
    Returned =>
        /\ Raw.bpm.kind = "absent" => Params.bpm = 90
        /\ Raw.guidance.kind = "absent" => Params.guidance = Rat(7, 1)
        /\ Raw.density.kind = "absent" => Params.density = Rat(1, 2)
        /\ (Raw.bpm.kind = "num" /\ Raw.bpm.val[2] = 1) =>
              Whole(Params.bpm) = Within(Raw.bpm.val, Whole(60), Whole(180))
        /\ Raw.guidance.kind = "num" =>
              Params.guidance = Within(Raw.guidance.val, Whole(1), Whole(10))
        /\ Raw.density.kind = "num" =>
              Params.density = Within(Raw.density.val, Whole(0), Whole(1))
        /\ ~Raw.present =>
              Params = [bpm |-> 90, guidance |-> Rat(7, 1), density |-> Rat(1, 2)]

\* C9 witness: a reply with a tempo and nothing else keeps the tempo
\* (clamped) and gets the defaults of the two other fields
C9_Witness ==
    /\ Returned
    /\ Raw = Parameters(Num(Whole(300)), AbsentValue, AbsentValue)
    /\ Params = [bpm |-> 180, guidance |-> Rat(7, 1), density |-> Rat(1, 2)]

\* the returned list handed back as the candidate list of a reply
OutAsReply ==
    ComponentsReply([i \in 1..Len(Out) |-> Candidate(Out[i].text, Num(Out[i].weight))])

\* C10: normalising the returned list again returns the same list, and a
\* list of short tags whose weights already sum to 1 is returned unchanged.
C10_Idempotent ==
    Returned =>
        /\ AnalyzeResult(OutAsReply).outcome = "ok"
        /\ AnalyzeResult(OutAsReply).result.weighted_prompts = Out
        /\ (Len(Survivors) = Len(reply.components) /\ SurvivorSum = Whole(1)) =>
              \A i \in 1..Len(Out) :
                  /\ Out[i].text = Strip(reply.components[i].text)
                  /\ Out[i].weight = reply.components[i].weight.val

\* C10 witness: a list of three that the first pass rescaled (weights 2, 1, 1)
\* and that contained a text the first pass trimmed
C10_Witness ==
    /\ Returned
    /\ Len(Out) = 3
    /\ SurvivorSum = Whole(4)
    /\ \E i \in 1..Len(Out) : reply.components[i].text = Piano

\* C11: a candidate with a text and a weight that is not a number (a
\* non-numeric string, null) is kept with weight 0 and the analysis still
\* returns a result for the list.
C11_NonNumericWeightKept ==
    (/\ pc = "done"
     /\ reply.text = "json"
     /\ \E i \in 1..Len(reply.components) :
           /\ Kept(reply.components[i])
           /\ reply.components[i].weight.kind \in {"str", "null"})
    => /\ Returned
       /\ Len(Out) = Len(Survivors)

\* C12: every returned component has a text of 1 to 50 characters; an empty
\* or whitespace-only text is never returned.
C12_TextLength ==
    Returned => \A i \in 1..Len(Out) :
                    1 <= PyLen(Out[i].text) /\ PyLen(Out[i].text) <= MaxTagLen

\* the failures of the analysis the handler must report
AnalysisFailed ==
    /\ pc = "done"
    /\ \/ outcome = "error"
       \/ FailureCause(configured, reply) \in
             {"not configured", "raised", "empty", "not json", "no components", "none valid"}

\* C13: every failed analysis (model not configured or unreachable, reply
\* empty or not JSON, no candidates, no candidate left by the filter) ends in
\* HTTP 500; a successful response carries the analysis' own result, never
\* defaults or an empty list; an unconfigured model is never called.
C13_FailuresAreExplicit ==
    /\ AnalysisFailed => http.status = 500 /\ http.body = NoResult
    /\ pc = "done" => http.status \in {200, 500}
    /\ http.status = 200 =>
          /\ outcome = "ok"
          /\ http.body = result
          /\ result.weighted_prompts # <<>>
    /\ ~configured => pc # "awaiting" /\ reply = NoReply

\* C13 witness: a reply that is not JSON is answered with HTTP 500
C13_Witness ==
    /\ pc = "done"
    /\ reply.text = "not json"
    /\ http.status = 500
    /\ http.body = NoResult

\* a /generate request has been answered
Generated == pc = "done" /\ lyria # "idle"

\* C14: a /generate request with a non-empty prompt or a non-empty
\* weighted_prompts list reaches generate_music_file, and when the generator
\* produces a file the handler answers with that file.
C14_AudioReturned ==
    (Generated /\ (HasPrompt(gen_request) \/ HasWeightedPrompts(gen_request))) =>
        /\ generator_entered
        /\ lyria = "audio" => http.status = 200

\* C15: a /generate request with neither a prompt nor weighted_prompts is
\* answered with HTTP 400 and the detail "Either 'prompt' or
\* 'weighted_prompts' must be provided", and the generator is not invoked.
C15_BadRequest ==
    (Generated /\ ~HasPrompt(gen_request) /\ ~HasWeightedPrompts(gen_request)) =>
        /\ http.status = 400
        /\ http.detail = BadRequestDetail
        /\ ~generator_entered

====
